---- MODULE Spec2Model ----
(***************************************************************************)
(* Model of app.py (CyruX Key API): a Flask application that issues        *)
(* 24-hour access keys into keys.json and validates them.                  *)
(*                                                                         *)
(* Time is counted in ticks, TicksPerSec ticks to the second, so that an   *)
(* instant has a whole-second part and a sub-second part (the datetime's   *)
(* microsecond field).  A timestamp string is a sequence of tokens: the    *)
(* date-time to whole seconds, '.', the fraction, the '+00:00' offset, 'Z'.*)
(***************************************************************************)
EXTENDS Integers, Sequences, FiniteSets, TLC

\* ---------------------------------------------------------------- bounds
TicksPerSec == 2          \* resolution of the clock's sub-second part
Slack == 1                \* ticks the clock may wander around 0 and around +24h
MaxKeys == 2              \* issuance requests (uuid4 values) of one behaviour
MaxLen == 2               \* entries of a store file of the round-trip check

\* ------------------------------------------------------------- constants
Hours == 24
WindowTicks == Hours * 3600 * TicksPerSec

\* --------------------------------------------------------------- strings
Tok(t, v) == [t |-> t, v |-> v]
DT(sec) == Tok("dt", sec)
Dot == Tok(".", 0)
Frac(n) == Tok("frac", n)
Off == Tok("+00:00", 0)
Z == Tok("Z", 0)
Junk == Tok("junk", 0)

\* datetime.isoformat() of an aware UTC datetime: the fraction is printed only
\* when microsecond # 0.
IsoFormat(t) ==
    <<DT(t \div TicksPerSec)>>
      \o (IF t % TicksPerSec # 0 THEN <<Dot, Frac(t % TicksPerSec)>> ELSE <<>>)
      \o <<Off>>

\* s.split('.')[0]: the text before the first '.', the whole text without one.
SplitDot0(s) ==
    LET dots == {i \in 1..Len(s) : s[i] = Dot}
    IN  IF dots = {} THEN s
        ELSE SubSeq(s, 1, (CHOOSE i \in dots : \A j \in dots : i <= j) - 1)

\* s.replace('Z', '+00:00')
ReplaceZ(s) == [i \in 1..Len(s) |-> IF s[i] = Z THEN Off ELSE s[i]]

\* datetime.fromisoformat(s): ok = no ValueError; aware = has a UTC offset.
FromIsoFormat(s) ==
    LET n == Len(s)
        aware == n >= 2 /\ s[n] = Off
        core == IF aware THEN SubSeq(s, 1, n - 1) ELSE s
        ok == \/ Len(core) = 1 /\ core[1].t = "dt"
              \/ Len(core) = 3 /\ core[1].t = "dt" /\ core[2] = Dot /\ core[3].t = "frac"
    IN  [ok |-> ok, aware |-> aware,
         ticks |-> IF ok THEN core[1].v * TicksPerSec
                               + (IF Len(core) = 3 THEN core[3].v ELSE 0)
                   ELSE 0]

\* The string generate_key builds from the expiration instant.
ExpirationStr(expiration_time) == Append(SplitDot0(IsoFormat(expiration_time)), Z)

\* ------------------------------------------------------- Python values
\* A value json.loads can return: ty is "dict", "list" or "int"; pairs are the
\* <<key, value>> items in insertion order (a list holds its items as keys).
Val(ty, pairs) == [ty |-> ty, pairs |-> pairs]
EmptyDict == Val("dict", <<>>)

Keys(pairs) == {pairs[i][1] : i \in 1..Len(pairs)}
DictHas(d, k) == k \in Keys(d.pairs)
DictGet(d, k) == d.pairs[CHOOSE i \in 1..Len(d.pairs) : d.pairs[i][1] = k][2]
\* d[k] = v: an existing key keeps its place, a new key goes last.
DictSet(d, k, v) ==
    IF DictHas(d, k)
    THEN Val("dict", [i \in 1..Len(d.pairs) |->
                         IF d.pairs[i][1] = k THEN <<k, v>> ELSE d.pairs[i]])
    ELSE Val("dict", Append(d.pairs, <<k, v>>))
\* The mapping a dict stands for, order forgotten.
AsMap(d) == [k \in Keys(d.pairs) |-> DictGet(d, k)]

\* ---------------------------------------------------------------- file
\* keys.json: kind is "empty" (no bytes), "bad" (not JSON), "int", "list" or
\* "obj"; pairs is the text's items in order (an object's text may repeat a
\* key); indent is the layout json.dump was given.
File(exists, kind, pairs, indent) ==
    [exists |-> exists, kind |-> kind, pairs |-> pairs, indent |-> indent]
NoFile == File(FALSE, "empty", <<>>, 0)
EmptyFile == File(TRUE, "empty", <<>>, 0)
BadFile == File(TRUE, "bad", <<>>, 0)

RECURSIVE ParsePairs(_, _)
ParsePairs(pairs, d) ==
    IF pairs = <<>> THEN d
    ELSE ParsePairs(Tail(pairs), DictSet(d, Head(pairs)[1], Head(pairs)[2]))

\* json.loads(content): raised on text that is not JSON; an object's repeated
\* key keeps its last value.
JsonLoads(f) ==
    CASE f.kind = "bad" -> [raised |-> TRUE, val |-> EmptyDict]
      [] f.kind = "obj" -> [raised |-> FALSE, val |-> ParsePairs(f.pairs, EmptyDict)]
      [] OTHER -> [raised |-> FALSE, val |-> Val(f.kind, f.pairs)]

\* json.dump(value, f, indent=n): the file the text makes.
JsonDump(v, indent) ==
    File(TRUE, IF v.ty = "dict" THEN "obj" ELSE v.ty, v.pairs, indent)

\* Outcomes of the system calls of one request.
IO == [create : {"ok", "fail"}, read : {"ok", "fail"},
       save : {"ok", "openfail", "truncated", "partial"}]
IOok == [create |-> "ok", read |-> "ok", save |-> "ok"]
\* A request that saves nothing meets only the calls of load_keys.
IOload == {io \in IO : io.save = "ok"}
\* save_keys meets only the calls of its own open and json.dump.
IOsave == {io \in IO : io.create = "ok" /\ io.read = "ok"}

\* load_keys(): raised = an exception leaves the function.
load_keys(f, io) ==
    IF ~f.exists
    THEN IF io.create = "fail"
         THEN [raised |-> TRUE, val |-> EmptyDict, file |-> f]
         ELSE [raised |-> FALSE, val |-> EmptyDict, file |-> JsonDump(EmptyDict, 0)]
    ELSE IF io.read = "fail" \/ f.kind = "empty" \/ JsonLoads(f).raised
         THEN [raised |-> FALSE, val |-> EmptyDict, file |-> f]
         ELSE [raised |-> FALSE, val |-> JsonLoads(f).val, file |-> f]

save_keys_appending(f, keys_data, io) ==
    IF f.kind = "empty" THEN JsonDump(keys_data, 4) ELSE BadFile
\* save_keys(keys_data): the file afterwards; open(KEY_FILE, 'w') truncates
\* before json.dump writes.
save_keys(f, keys_data, io) ==
    CASE io.save = "ok" -> JsonDump(keys_data, 4)
      [] io.save = "openfail" -> f
      [] io.save = "truncated" -> EmptyFile
      [] OTHER -> BadFile

\* current_time < expiration_time, the comparison validate_key makes.
NotExpiredAtOrBefore(current_time, expiration_time) == current_time <= expiration_time
NotExpired(current_time, expiration_time) == current_time < expiration_time

\* ---------------------------------------------------------------- state
VARIABLES
    file,       \* keys.json
    now,        \* the clock, in ticks
    nextKey,    \* the next uuid4 value (uuid4 values do not repeat)
    issuedAt,   \* history: the instant each key was issued at, -1 before
    last,       \* the last request served and its response
    thr,        \* threads of the threaded server, each inside generate_key
    saves       \* history: the threads that wrote keys.json, in order

vars == <<file, now, nextKey, issuedAt, last, thr, saves>>

Threads == {1, 2}
NewKeys == 1..MaxKeys
OldKey == MaxKeys + 1          \* a key keys.json held before the server started
NoParam == -1                  \* request.args.get('key') is None
EmptyParam == 0                \* ?key=
Params == {NoParam, EmptyParam} \cup NewKeys \cup {OldKey}

\* A response, with the instant of the request; fault and saveFault tell
\* whether a system call of its load_keys, of its save_keys, failed.
Resp(route, key, code, body, fault, saveFault) ==
    [route |-> route, key |-> key, code |-> code, body |-> body,
     fault |-> fault, saveFault |-> saveFault, at |-> now]
\* What Flask answers when an exception leaves a view function.
Unhandled(route, key, fault) == Resp(route, key, 500, "unhandled", fault, FALSE)

LoadFault(f, io) == IF f.exists THEN io.read = "fail" ELSE io.create = "fail"

Stored(v) == File(TRUE, "obj", << <<OldKey, v>> >>, 4)
InitFiles ==
    { NoFile, EmptyFile, BadFile,
      File(TRUE, "int", <<>>, 0),
      File(TRUE, "list", << <<OldKey, <<>>>> >>, 0),
      File(TRUE, "obj", <<>>, 0),
      Stored(<<DT(Hours * 3600), Z>>),
      Stored(<<DT(Hours * 3600)>>),
      Stored(<<Junk>>) }

IdleThread == [pc |-> "idle", new_key |-> 0, expiration_str |-> <<>>,
               keys |-> EmptyDict, loadedAt |-> 0, fault |-> FALSE,
               saveFault |-> FALSE]

Init ==
    /\ file \in InitFiles
    /\ now = 0
    /\ nextKey = 1
    /\ issuedAt = [k \in NewKeys |-> -1]
    /\ last = Resp("none", 0, 0, "none", FALSE, FALSE)
    /\ thr = [t \in Threads |-> IdleThread]
    /\ saves = <<>>

\* ------------------------------------------------------------- requests
\* GET /generateKey: the file afterwards and the response.
generate_key(new_key, io) ==
    LET route == "/generateKey"
        expiration_time == now + WindowTicks
        expiration_str == ExpirationStr(expiration_time)
        ld == load_keys(file, io)
    IN  IF ld.raised \/ ld.val.ty # "dict"
        THEN \* open() failed outside the try, or keys[new_key] = ... on a value
             \* that is no dict raised TypeError
             [file |-> ld.file,
              resp |-> Unhandled(route, new_key, LoadFault(file, io))]
        ELSE [file |-> save_keys(ld.file, DictSet(ld.val, new_key, expiration_str), io),
              resp |-> Resp(route, new_key, 200, "html",
                            LoadFault(file, io), io.save # "ok")]

GenerateKey(io) ==
    /\ nextKey <= MaxKeys
    /\ file' = generate_key(nextKey, io).file
    /\ last' = generate_key(nextKey, io).resp
    /\ issuedAt' = [issuedAt EXCEPT ![nextKey] = now]
    /\ nextKey' = nextKey + 1
    /\ UNCHANGED <<now, thr, saves>>

\* GET /
home == Resp("/", 0, 200, "online", FALSE, FALSE)

HomeIssuesKey ==
    /\ nextKey <= MaxKeys
    /\ file' = generate_key(nextKey, IOok).file
    /\ last' = [generate_key(nextKey, IOok).resp EXCEPT !.route = "/"]
    /\ issuedAt' = [issuedAt EXCEPT ![nextKey] = now]
    /\ nextKey' = nextKey + 1
    /\ UNCHANGED <<now, thr, saves>>
Home ==
    /\ last' = home
    /\ UNCHANGED <<file, now, nextKey, issuedAt, thr, saves>>

\* GET /api/v1/validateKey?key=...: the file afterwards and the response.
validate_key(key_to_validate, io) ==
    LET route == "/api/v1/validateKey"
        R(code, body) ==
            Resp(route, key_to_validate, code, body, LoadFault(file, io), FALSE)
        ld == load_keys(file, io)
        keys == ld.val
        expiration_str == DictGet(keys, key_to_validate)
        expiration_time == FromIsoFormat(ReplaceZ(expiration_str))
    IN  IF key_to_validate \in {NoParam, EmptyParam}
        THEN [file |-> file,
              resp |-> Resp(route, key_to_validate, 400, "No key provided", FALSE, FALSE)]
        ELSE IF ld.raised \/ keys.ty = "int"
        THEN \* open() failed outside the try, or "key not in 5" raised TypeError
             [file |-> ld.file,
              resp |-> Unhandled(route, key_to_validate, LoadFault(file, io))]
        ELSE IF key_to_validate \notin Keys(keys.pairs)
        THEN [file |-> ld.file, resp |-> R(404, "Key not found")]
        ELSE IF \/ keys.ty # "dict"                 \* list[str]: TypeError
                \/ ~expiration_time.ok              \* fromisoformat: ValueError
                \/ ~expiration_time.aware           \* aware < naive: TypeError
        THEN [file |-> ld.file, resp |-> R(500, "Internal format error")]
        ELSE IF NotExpired(now, expiration_time.ticks)
        THEN [file |-> ld.file, resp |-> R(200, "Access Granted")]
        ELSE [file |-> ld.file, resp |-> R(401, "Key Expired")]

ValidateKey(key, io) ==
    /\ file' = validate_key(key, io).file
    /\ last' = validate_key(key, io).resp
    /\ UNCHANGED <<now, nextKey, issuedAt, thr, saves>>

\* The clock moves on: by a tick, or by almost the whole window.
TimeOK(t) == t <= Slack \/ (WindowTicks - Slack <= t /\ t <= WindowTicks + Slack)
Tick(d) ==
    /\ TimeOK(now + d)
    /\ now' = now + d
    /\ UNCHANGED <<file, nextKey, issuedAt, last, thr, saves>>

Next ==
    \/ Home
    \/ \E io \in IO : GenerateKey(io)
    \/ \E key \in Params, io \in IOload : ValidateKey(key, io)
    \/ \E d \in {1, WindowTicks - Slack} : Tick(d)

Spec == Init /\ [][Next]_vars

\* ------------------------------------------------- concurrent issuance
\* app.run() serves each request on a thread of its own.  A thread inside
\* generate_key steps through: uuid4 and the clock (RStart), load_keys and
\* keys[new_key] = ... (RLoad), save_keys' open(KEY_FILE, 'w') (ROpen) and its
\* json.dump and close (RWrite), and the return of the page (RReturn).

\* Bytes of a store file written with indent=4, from the lengths of its parts.
StrLen(v) ==
    LET w(tok) == CASE tok.t = "dt" -> 19 [] tok.t = "frac" -> 6
                    [] tok.t = "+00:00" -> 6 [] tok.t = "junk" -> 4 [] OTHER -> 1
        sum[i \in 0..Len(v)] == IF i = 0 THEN 0 ELSE sum[i - 1] + w(v[i])
    IN  sum[Len(v)]
TextSize(pairs) ==
    LET sum[i \in 0..Len(pairs)] ==
            IF i = 0 THEN 2 ELSE sum[i - 1] + 44 + StrLen(pairs[i][2])
    IN  sum[Len(pairs)]

\* The file after json.dump and close through a descriptor opened with 'w':
\* the text lands at offset 0, over whatever another thread has written since
\* the open truncated the file; longer tells whether the text is at least as
\* long as a torn text already there.
write_merging(f, keys_data, longer) ==
    IF f.kind = "obj"
    THEN JsonDump(ParsePairs(keys_data.pairs, ParsePairs(f.pairs, EmptyDict)), 4)
    ELSE JsonDump(keys_data, 4)
write(f, keys_data, longer) ==
    CASE f.kind = "empty" -> JsonDump(keys_data, 4)
      [] f.kind = "bad" -> IF longer THEN JsonDump(keys_data, 4) ELSE BadFile
      [] OTHER -> IF TextSize(keys_data.pairs) >= TextSize(f.pairs)
                  THEN JsonDump(keys_data, 4) ELSE BadFile

Page(t) == Resp("/generateKey", thr[t].new_key, 200, "html",
                thr[t].fault, thr[t].saveFault)

RStart(t) ==
    /\ thr[t].pc = "idle"
    /\ nextKey <= MaxKeys
    /\ thr' = [thr EXCEPT ![t] = [IdleThread EXCEPT
                  !.pc = "started", !.new_key = nextKey,
                  !.expiration_str = ExpirationStr(now + WindowTicks)]]
    /\ issuedAt' = [issuedAt EXCEPT ![nextKey] = now]
    /\ nextKey' = nextKey + 1
    /\ UNCHANGED <<file, now, last, saves>>

RLoad(t, io) ==
    /\ thr[t].pc = "started"
    /\ LET ld == load_keys(file, io)
       IN  /\ file' = ld.file
           /\ IF ld.raised \/ ld.val.ty # "dict"
              THEN thr' = [thr EXCEPT ![t].pc = "raised",
                                      ![t].fault = LoadFault(file, io)]
              ELSE thr' = [thr EXCEPT
                     ![t].pc = "loaded",
                     ![t].keys = DictSet(ld.val, thr[t].new_key, thr[t].expiration_str),
                     ![t].loadedAt = Len(saves),
                     ![t].fault = LoadFault(file, io)]
    /\ UNCHANGED <<now, nextKey, issuedAt, last, saves>>

ROpen(t, io) ==
    /\ thr[t].pc = "loaded"
    /\ io.save \in {"ok", "openfail"}
    /\ IF io.save = "openfail"
       THEN /\ thr' = [thr EXCEPT ![t].pc = "done", ![t].saveFault = TRUE]
            /\ file' = file
       ELSE /\ thr' = [thr EXCEPT ![t].pc = "opened"]
            /\ file' = EmptyFile
    /\ UNCHANGED <<now, nextKey, issuedAt, last, saves>>

RWrite(t, io, longer) ==
    /\ thr[t].pc = "opened"
    /\ io.save \in {"ok", "truncated", "partial"}
    /\ CASE io.save = "ok" ->
              /\ file' = write(file, thr[t].keys, longer)
              /\ saves' = Append(saves, t)
              /\ thr' = [thr EXCEPT ![t].pc = "done"]
         [] io.save = "truncated" ->
              /\ UNCHANGED <<file, saves>>
              /\ thr' = [thr EXCEPT ![t].pc = "done", ![t].saveFault = TRUE]
         [] OTHER ->
              /\ file' = BadFile
              /\ UNCHANGED saves
              /\ thr' = [thr EXCEPT ![t].pc = "done", ![t].saveFault = TRUE]
    /\ UNCHANGED <<now, nextKey, issuedAt, last>>

RReturn(t) ==
    /\ thr[t].pc \in {"done", "raised"}
    /\ last' = IF thr[t].pc = "done" THEN Page(t)
               ELSE Unhandled("/generateKey", thr[t].new_key, thr[t].fault)
    /\ thr' = [thr EXCEPT ![t] = IdleThread]
    /\ UNCHANGED <<file, now, nextKey, issuedAt, saves>>

InitRace ==
    /\ Init
    /\ file \in {NoFile, File(TRUE, "obj", <<>>, 0), Stored(<<DT(Hours * 3600), Z>>)}

NextRace ==
    \/ \E t \in Threads : RStart(t)
    \/ \E t \in Threads, io \in IOload : RLoad(t, io)
    \/ \E t \in Threads, io \in IOsave : ROpen(t, io)
    \/ \E t \in Threads, io \in IOsave, longer \in BOOLEAN : RWrite(t, io, longer)
    \/ \E t \in Threads : RReturn(t)
    \/ Tick(1)

SpecRace == InitRace /\ [][NextRace]_vars

\* ---------------------------------------------------------- round trip
\* save_keys(load_keys()) on a well-formed store file: a JSON object of key
\* strings and timestamp strings, in either layout, a key possibly repeated.
Stamps == { <<DT(0), Z>>, <<DT(Hours * 3600), Z>> }
Entries == (NewKeys \cup {OldKey}) \X Stamps
PairSeqs == UNION { [1..n -> Entries] : n \in 0..MaxLen }
WellFormedFiles == { File(TRUE, "obj", pairs, indent) :
                        pairs \in PairSeqs, indent \in {0, 4} }

RoundTrip(io) ==
    /\ file' = save_keys(load_keys(file, io).file, load_keys(file, io).val, io)
    /\ last' = Resp("save_keys(load_keys())", 0, 0, "none",
                    LoadFault(file, io), io.save # "ok")
    /\ UNCHANGED <<now, nextKey, issuedAt, thr, saves>>

InitRoundTrip ==
    /\ file \in WellFormedFiles
    /\ now = 0
    /\ nextKey = 1
    /\ issuedAt = [k \in NewKeys |-> -1]
    /\ last = Resp("none", 0, 0, "none", FALSE, FALSE)
    /\ thr = [t \in Threads |-> IdleThread]
    /\ saves = <<>>

NextRoundTrip == \E io \in IO : RoundTrip(io)

SpecRoundTrip == InitRoundTrip /\ [][NextRoundTrip]_vars

\* ------------------------------------------------------------ properties
\* The store: the mapping keys.json holds, as a load without a failing system
\* call reads it (empty when the file holds no JSON object).
Store(f) ==
    IF f.exists /\ f.kind = "obj" THEN ParsePairs(f.pairs, EmptyDict) ELSE EmptyDict

\* A UTC timestamp string: date-time, an optional fraction, then one 'Z' or
\* one '+00:00'; and the instant it names.
IsUtcStamp(s) ==
    /\ Len(s) \in {2, 4}
    /\ s[1].t = "dt"
    /\ s[Len(s)] \in {Z, Off}
    /\ Len(s) = 4 => (s[2] = Dot /\ s[3].t = "frac")
StampTicks(s) == s[1].v * TicksPerSec + (IF Len(s) = 4 THEN s[3].v ELSE 0)
\* YYYY-MM-DDTHH:MM:SSZ
IsSecondsZ(s) == Len(s) = 2 /\ s[1].t = "dt" /\ s[2] = Z

ValidateRoute == "/api/v1/validateKey"
Issued(r) == r.route = "/generateKey" /\ r.code = 200 /\ ~r.fault /\ ~r.saveFault
Granted(r) == r.code = 200 /\ r.body = "Access Granted"

\* C1: a key issued at any instant (no system call failing) and validated
\* next, before 24 hours have passed since issuance, is answered 200 "valid".
C1_IssueThenValidate ==
    [][(/\ Issued(last)
        /\ last'.route = ValidateRoute /\ last'.key = last.key /\ ~last'.fault
        /\ now' < issuedAt[last.key] + WindowTicks)
       => Granted(last')]_vars

\* C2: a validation request (whose read of the store did not fail) succeeds
\* if and only if the key is in the store and the clock is strictly before
\* the stored expiration; at the expiration instant itself it does not.
C2_SuccessIff ==
    last.route = ValidateRoute =>
        (Granted(last) <=>
            /\ ~last.fault
            /\ DictHas(Store(file), last.key)
            /\ IsUtcStamp(DictGet(Store(file), last.key))
            /\ last.at < StampTicks(DictGet(Store(file), last.key)))
C2_AtExpiration ==
    /\ last.route = ValidateRoute /\ last.code = 401 /\ ~last.fault
    /\ DictHas(Store(file), last.key)
    /\ IsUtcStamp(DictGet(Store(file), last.key))
    /\ StampTicks(DictGet(Store(file), last.key)) = last.at

\* C3: every validation request (no system call failing) ends in one of the
\* five JSON outcomes 400, 404, 500 (format error), 401, 200.
C3_FiveOutcomes ==
    (last.route = ValidateRoute /\ ~last.fault) =>
        <<last.code, last.body>> \in
            { <<400, "No key provided">>, <<404, "Key not found">>,
              <<500, "Internal format error">>, <<401, "Key Expired">>,
              <<200, "Access Granted">> }

\* C4 as claimed: GET / answers with the HTML page of an issued key.
C4_RootIssuesKey == last.route = "/" => (last.body = "html" /\ last.key \in NewKeys)
\* C4 as amended: GET / issues nothing; it leaves keys.json as it is, draws no
\* key and answers 200 with the JSON status "online".
C4_RootIsStatus ==
    [][last'.route = "/" =>
          /\ file' = file /\ nextKey' = nextKey /\ issuedAt' = issuedAt
          /\ last'.code = 200 /\ last'.body = "online"]_vars
C4_RootServed == last.route = "/" /\ last.body = "online" /\ nextKey = 1

\* C5: an entry of the store stays, with its expiration, through every
\* request whose save (if it makes one) succeeds.
C5_EntriesPersist ==
    [][(last' # last /\ ~last'.saveFault)
       => \A k \in Keys(Store(file).pairs) :
             /\ DictHas(Store(file'), k)
             /\ DictGet(Store(file'), k) = DictGet(Store(file), k)]_vars

\* C6: the value an issuance (no system call failing) stores for its key has
\* the form YYYY-MM-DDTHH:MM:SSZ.
C6_StoredFormat ==
    Issued(last) =>
        /\ DictHas(Store(file), last.key)
        /\ IsSecondsZ(DictGet(Store(file), last.key))

\* C7: the expiration stored for an issued key names the instant of issuance
\* plus 24 hours, and the key validates as valid before that instant and as
\* expired from it on.
C7_ExactWindow ==
    /\ [](Issued(last) =>
            /\ DictHas(Store(file), last.key)
            /\ IsUtcStamp(DictGet(Store(file), last.key))
            /\ StampTicks(DictGet(Store(file), last.key))
                 = issuedAt[last.key] + WindowTicks)
    /\ [][(/\ Issued(last)
           /\ last'.route = ValidateRoute /\ last'.key = last.key /\ ~last'.fault)
          => IF now' < issuedAt[last.key] + WindowTicks
             THEN Granted(last')
             ELSE last'.code = 401 /\ last'.body = "Key Expired"]_vars

\* C8: no request ends in an unhandled exception, whatever the storage does.
C8_NothingFatal == last.body # "unhandled"

\* C9: when two issuance requests both loaded the store before either wrote
\* it, and both wrote it and have their page, the key of the one that wrote
\* first is not in the store (it validates as not found), and a store file
\* that is whole holds what the last writer held: its own key, not the other.
Raced(a, b) ==
    /\ a # b
    /\ thr[a].pc = "done" /\ thr[b].pc = "done"
    /\ ~thr[a].fault /\ ~thr[a].saveFault /\ ~thr[b].fault /\ ~thr[b].saveFault
    /\ thr[a].loadedAt = thr[b].loadedAt
    /\ Len(saves) = thr[a].loadedAt + 2
    /\ saves[Len(saves) - 1] = a /\ saves[Len(saves)] = b
C9_LastWriterWins ==
    \A a, b \in Threads :
        Raced(a, b) =>
            /\ ~DictHas(Store(file), thr[a].new_key)
            /\ validate_key(thr[a].new_key, IOok).resp.code = 404
            /\ file.kind = "obj" =>
                  /\ Store(file) = thr[b].keys
                  /\ DictHas(Store(file), thr[b].new_key)
C9_LostUpdate ==
    \E a, b \in Threads :
        /\ Raced(a, b)
        /\ file.kind = "obj"
        /\ DictHas(Store(file), thr[b].new_key)
        /\ ~DictHas(Store(file), thr[a].new_key)

\* C10: on a well-formed store file, save(load()) whose read and write
\* succeed leaves the mapping of the store as it was, and the file it leaves
\* is one that a further save(load()) does not change.
RoundTripped == last.route = "save_keys(load_keys())" /\ ~last.fault /\ ~last.saveFault
C10_RoundTrip ==
    /\ [][(last' # last /\ ~last'.fault /\ ~last'.saveFault)
          => AsMap(Store(file')) = AsMap(Store(file))]_vars
    /\ [](RoundTripped =>
            save_keys(load_keys(file, IOok).file, load_keys(file, IOok).val, IOok) = file)
C10_Rewritten ==
    /\ RoundTripped
    /\ Len(file.pairs) = 2
    /\ file.indent = 4

====
